---- MODULE Spec2Model ----
(***************************************************************************)
(* The spreadsheet access layer of TTT-CRM (class GoogleSheets: fetchLeads,*)
(* appendLead, updateLead, columnToIndex, getAccessToken), the             *)
(* AddLeadDialog submit handler that calls appendLead, and the             *)
(* ConsultantDashboard with its foreground and silent fetchLeads.          *)
(*                                                                         *)
(* Strings are TLA+ strings.  A column address is the sequence of its      *)
(* character codes (<<65>> is "A", <<65, 90>> is "AZ"), so that            *)
(* columnToIndex computes on charCodeAt as the code does.  A message is a  *)
(* sequence of string pieces: the fixed prefix of the code is one piece,   *)
(* a provider text is spelled one character per piece, so that             *)
(* String.includes is a contiguous-subsequence test.  An object with       *)
(* optional keys (a Partial<SheetLead>, the column mapping) is a function  *)
(* whose domain holds the keys that are defined.                           *)
(***************************************************************************)
EXTENDS Integers, Sequences, FiniteSets, TLC

(* ------------------------------ bounds -------------------------------- *)

\* Invocations of fetchLeads, appendLead and updateLead in one behaviour.
MaxOps == 2
\* Rows of the worksheet, header included; an append needs room.
MaxRows == 4
\* Milliseconds the clock may advance.
MaxTicks == 1
\* Longest column address of the codec specification.
MaxColLen == 2
\* Rows another actor inserts or deletes in one behaviour.
MaxEdits == 2
\* Calls of the dashboard's fetchLeads in one behaviour.
MaxFetches == 3

(* --------------------------- program constants ------------------------ *)

\* 'A'.charCodeAt(0)
CharCodeA == 65
\* the header offset of updateLead: rowNumber = rowIndex + 2
HeaderOffset == 2
\* Date.now() when the session starts (any value: identifiers of earlier
\* appends lie in the past)
StartClock == 5

VARIABLES
  sheet,      \* the worksheet at the provider: sheet[r] is physical row r
  clock,      \* Date.now()
  cm,         \* this.columnMappings
  hasKey,     \* this.serviceAccountJson is non-empty
  minted,     \* access tokens the token endpoint has issued so far
  started,    \* invocations started so far
  ops,        \* the invocations in flight, and the last one that ended, by slot
  col,        \* codec specification: the column address
  colIndex,   \* codec specification: columnToIndex(col), -2 before the call
  mLead,      \* mapper specification: the lead
  mCm,        \* mapper specification: the column mapping
  mPc,        \* mapper specification: "start", "row", "read", "threw"
  mRow,       \* mapper specification: the row appendLead builds
  mRec,       \* mapper specification: the record fetchLeads reads back
  edits,      \* rows another actor has inserted or deleted so far
  leads,      \* ConsultantDashboard: the leads state (the displayed list)
  loading,    \* ConsultantDashboard: the loading state
  toasts,     \* ConsultantDashboard: the toasts raised so far
  consoleLog, \* ConsultantDashboard: the lines written to the console so far
  calls,      \* ConsultantDashboard: the calls of fetchLeads in flight, by slot
  issued      \* ConsultantDashboard: calls of fetchLeads issued so far

vars == <<sheet, clock, cm, hasKey, minted, started, ops, col, colIndex,
          mLead, mCm, mPc, mRow, mRec, edits,
          leads, loading, toasts, consoleLog, calls, issued>>
accessVars == <<sheet, clock, cm, hasKey, minted, started, ops>>
codecVars == <<col, colIndex>>
mapperVars == <<mLead, mCm, mPc, mRow, mRec>>
raceVars == <<edits>>
dashVars == <<leads, loading, toasts, consoleLog, calls, issued>>

(* ------------------------------ helpers ------------------------------- *)

EmptyObj == [k \in {} |-> ""]

Max(S) == CHOOSE m \in S : \A n \in S : n <= m

Min(S) == CHOOSE m \in S : \A n \in S : m <= n

\* Object.entries order of the objects the model enumerates.
FieldOrder == <<"tripId", "consultant", "status", "notes">>

Fields == {FieldOrder[i] : i \in 1..Len(FieldOrder)}

\* str.includes(needle)
Includes(msg, needle) ==
  \E i \in 1..(Len(msg) - Len(needle) + 1) :
    SubSeq(msg, i, i + Len(needle) - 1) = needle

(* --------------------------- column codec ----------------------------- *)

\* the loop body with digits 0..25 instead of 1..26
ColStepZeroBased(index, code) == index * 26 + (code - CharCodeA)

\* columnToIndex, the loop body: index = index * 26 + (code - 'A' + 1)
ColStep(index, code) == index * 26 + (code - CharCodeA + 1)

RECURSIVE ColLoop(_, _)
\* columnToIndex, the loop over the first n characters
ColLoop(c, n) == IF n = 0 THEN 0 ELSE ColStep(ColLoop(c, n - 1), c[n])

columnToIndex(c) == ColLoop(c, Len(c)) - 1

(* --------------------------- record mapper ---------------------------- *)

\* row[idx] = v on a JavaScript array that already has the length
SetIdx(row, idx, v) ==
  IF idx + 1 \in DOMAIN row THEN [row EXCEPT ![idx + 1] = v] ELSE row

\* the trip identifier written as the lead gives it
TripIdAsGiven(lead, now) ==
  IF "tripId" \in DOMAIN lead THEN lead["tripId"] ELSE ""

\* appendLead: lead.tripId || `T${Date.now()}`
TripIdOrNew(lead, now) ==
  IF "tripId" \in DOMAIN lead /\ lead["tripId"] # ""
  THEN lead["tripId"]
  ELSE "T" \o ToString(now)

\* appendLead, the body of the loop over Object.entries(cm)
RowAssign(row, key, lead, m, now) ==
  IF key = "tripId"
  THEN SetIdx(row, columnToIndex(m[key]), TripIdOrNew(lead, now))
  ELSE IF key \in DOMAIN lead
       THEN SetIdx(row, columnToIndex(m[key]), lead[key])
       ELSE row

RECURSIVE FillRow(_, _, _, _, _)
\* appendLead, the loop over Object.entries(cm) from entry i on
FillRow(row, i, lead, m, now) ==
  IF i > Len(FieldOrder) THEN row
  ELSE IF FieldOrder[i] \in DOMAIN m
       THEN FillRow(RowAssign(row, FieldOrder[i], lead, m, now),
                    i + 1, lead, m, now)
       ELSE FillRow(row, i + 1, lead, m, now)

\* appendLead: Math.max(...) of the mapped column indices
maxCol(m) == Max({columnToIndex(m[k]) : k \in DOMAIN m})

\* appendLead: the row sent to the provider (the mapping is not empty)
RecordToRow(lead, m, now) ==
  FillRow([i \in 1..(maxCol(m) + 1) |-> ""], 1, lead, m, now)

\* the cell read with a one-based index
CellOneBased(row, idx) ==
  IF idx \in DOMAIN row THEN row[idx] ELSE ""

\* fetchLeads: row[idx] || ''
CellOrEmpty(row, idx) ==
  IF idx + 1 \in DOMAIN row THEN row[idx + 1] ELSE ""

\* fetchLeads: the record built from one row
RowToRecord(row, m) ==
  [k \in DOMAIN m |-> CellOrEmpty(row, columnToIndex(m[k]))]

(* ------------------------------ provider ------------------------------ *)

WorksheetName == "MASTER DATA"

RECURSIVE TrimRow(_)
\* a values response carries no trailing empty cells
TrimRow(row) ==
  IF row # <<>> /\ row[Len(row)] = ""
  THEN TrimRow(SubSeq(row, 1, Len(row) - 1))
  ELSE row

RECURSIVE TrimRows(_)
\* a values response carries no trailing empty rows
TrimRows(rows) ==
  IF rows # <<>> /\ rows[Len(rows)] = <<>>
  THEN TrimRows(SubSeq(rows, 1, Len(rows) - 1))
  ELSE rows

\* the grid as the provider keeps it: empty cells are not stored
Normalise(sh) == TrimRows([r \in 1..Len(sh) |-> TrimRow(sh[r])])

\* GET values/{ws}!A2:AZ10000 : the data rows
ReadRows(sh) == SubSeq(sh, 2, Len(sh))

\* GET values/{ws}!{c}2:{c}10000?majorDimension=COLUMNS : values[0]
KeyColumn(sh, c) ==
  TrimRow([i \in 1..(Len(sh) - 1) |-> CellOrEmpty(sh[i + 1], columnToIndex(c))])

\* POST values/{ws}:append : the row lands below the last row of the table
ProviderAppend(sh, row) == Normalise(Append(sh, row))

\* one cell write of a batch update; the grid grows as needed
SetCell(sh, r, c, v) ==
  LET tall == [i \in 1..Max({Len(sh), r}) |->
                 IF i \in DOMAIN sh THEN sh[i] ELSE <<>>]
      wide == [j \in 1..Max({Len(tall[r]), c}) |->
                 IF j \in DOMAIN tall[r] THEN tall[r][j] ELSE ""]
  IN  [tall EXCEPT ![r] = [wide EXCEPT ![c] = v]]

RECURSIVE ApplyData(_, _, _)
ApplyData(sh, data, i) ==
  IF i > Len(data) THEN sh
  ELSE ApplyData(SetCell(sh, data[i].range.row,
                         columnToIndex(data[i].range.col) + 1,
                         data[i].value),
                 data, i + 1)

\* POST values:batchUpdate : every range of the body is written
ProviderBatch(sh, data) == Normalise(ApplyData(sh, data, 1))

(* ------------------------------ lookup -------------------------------- *)

\* toLowerCase on the identifiers of the model
Lower(v) == CASE v = "T1" -> "t1" [] v = "T9" -> "t9" [] OTHER -> v

\* a comparison that folds case
KeyEqualsFoldingCase(v, tripId) == Lower(v) = Lower(tripId)

\* updateLead: String(v) === String(tripId)
KeyEquals(v, tripId) == v = tripId

\* updateLead: colVals.findIndex(...), zero-based, -1 when nothing matches
FindIndex(colVals, tripId) ==
  IF \E i \in DOMAIN colVals : KeyEquals(colVals[i], tripId)
  THEN Min({i \in DOMAIN colVals : KeyEquals(colVals[i], tripId)}) - 1
  ELSE -1

\* the check of findIndex's -1 left out
IsNotFoundNever(rowIndex) == FALSE

\* updateLead: rowIndex === -1
IsNotFound(rowIndex) == rowIndex = -1

\* the row number taken for the one-based position in the key column
RowNumberNoHeader(rowIndex) == rowIndex + 1

\* updateLead: rowNumber = rowIndex + 2
RowNumber(rowIndex) == rowIndex + HeaderOffset

\* updateLead: cm.tripId || 'A'
TripIdCol(m) ==
  IF "tripId" \in DOMAIN m /\ m["tripId"] # <<>> THEN m["tripId"] ELSE <<CharCodeA>>

\* updateLead: the filter val !== undefined && cm[key]
IsWritten(key, updates, m) ==
  key \in DOMAIN updates /\ key \in DOMAIN m /\ m[key] # <<>>

\* an entry of data addressed with the row index instead of the row number
DataEntryAtIndex(key, updates, m, rowNumber) ==
  [range |-> [ws |-> WorksheetName, col |-> m[key], row |-> rowNumber - HeaderOffset],
   value |-> updates[key]]

\* updateLead: one entry of data
DataEntry(key, updates, m, rowNumber) ==
  [range |-> [ws |-> WorksheetName, col |-> m[key], row |-> rowNumber],
   value |-> updates[key]]

\* updateLead: Object.entries(updates).filter(...).map(...)
BuildData(updates, m, rowNumber) ==
  LET Keep(k) == IsWritten(k, updates, m)
      kept == SelectSeq(FieldOrder, Keep)
  IN  [i \in 1..Len(kept) |-> DataEntry(kept[i], updates, m, rowNumber)]

(* ------------------------------ messages ------------------------------ *)

\* the needle of AddLeadDialog: error.message.includes('protected')
Protected == <<"p", "r", "o", "t", "e", "c", "t", "e", "d">>

\* texts of a non-success provider response
TextProtected == <<"r", "a", "n", "g", "e", " ", "i", "s", " ">> \o Protected
TextQuota == <<"q", "u", "o", "t", "a">>
RejectTexts == {TextProtected, TextQuota}

MsgNoKey == <<"Service Account JSON required.">>
MsgToken == <<"Failed to get access token.">>
MsgFetch == <<"Failed to fetch leads.">>
MsgAppend(text) == <<"Failed to append lead: ">> \o text
MsgReadIds(text) == <<"Failed to read Trip IDs: ">> \o text
MsgNotFound(tripId) == <<"Trip ID ", tripId, " not found.">>
AlertNotFound(tripId) == <<"Trip ID ", tripId, " not found in Google Sheet.">>
AlertUpdateFailed(text) == <<"Lead update failed: ">> \o text
AlertUpdateError(msg) == <<"Error updating lead: ">> \o msg
AlertUpdated == <<"Lead updated in Sheet successfully!">>

(* ---------------------------- access client --------------------------- *)

\* two invocations run at a time; an invocation that starts takes the slot of
\* one that has ended
Slots == {1, 2}

IdleOp ==
  [kind |-> "none", pc |-> "idle", tripId |-> "", args |-> EmptyObj,
   token |-> 0, rowNumber |-> 0, data |-> <<>>,
   result |-> "pending", outcome |-> "", error |-> <<>>, failure |-> <<>>,
   alerts |-> <<>>, ret |-> <<>>, ui |-> "none",
   nToken |-> 0, nRead |-> 0, nAppend |-> 0, nBatch |-> 0, sent |-> <<>>]

\* a token kept from the first operation and sent again
BearerCached(op) == IF op.token > 1 THEN 1 ELSE op.token

\* appendLead, updateLead: Authorization: `Bearer ${token}`, the token being
\* the local constant of the invocation
Bearer(op) == op.token

\* a request to the provider that carries the bearer token
Sent(op, call) ==
  [op EXCEPT !.sent = Append(@, [call |-> call, token |-> Bearer(op)])]

\* AddLeadDialog.handleSubmit, the catch block
handleSubmit_catch(msg) ==
  IF msg # <<>> /\ Includes(msg, Protected) THEN "protectionDialog" ELSE "errorToast"

\* a catch block that throws the error on to the caller
updateLead_rethrow(op, msg, outcome) ==
  [op EXCEPT !.pc = "done", !.result = "threw", !.outcome = outcome,
             !.failure = msg, !.error = msg,
             !.alerts = Append(@, AlertUpdateError(msg))]

\* updateLead, the catch block: the error is logged and alerted, then the
\* method returns
updateLead_catch(op, msg, outcome) ==
  [op EXCEPT !.pc = "done", !.result = "returned", !.outcome = outcome,
             !.failure = msg, !.alerts = Append(@, AlertUpdateError(msg))]

\* an Error thrown inside the operation, as its caller sees it
Thrown(op, msg, outcome) ==
  IF op.kind = "update"
  THEN updateLead_catch(op, msg, outcome)
  ELSE [op EXCEPT !.pc = "done", !.result = "threw", !.outcome = outcome,
                  !.failure = msg, !.error = msg,
                  !.ui = IF op.kind = "append" THEN handleSubmit_catch(msg) ELSE @]

\* appends that will still add a row
PendingAppends ==
  Cardinality({o \in Slots : ops[o].kind = "append" /\ ops[o].pc \notin {"idle", "done"}})

Free(o) == ops[o].pc \in {"idle", "done"}

\* a public method is invoked: it takes the first free slot
CanStart(o) ==
  /\ started < MaxOps
  /\ Free(o)
  /\ \A p \in Slots : p < o => ~Free(p)

\* leads handed to appendLead: no trip identifier, an empty one, a given one
LeadInputs ==
  { EmptyObj,
    ("tripId" :> "") @@ ("status" :> "Hot Leads"),
    ("tripId" :> "T1") @@ ("status" :> "Hot Leads") }

\* updates handed to updateLead: nothing, only a field the mapping may lack,
\* one mapped field, the key field among the updates
UpdateInputs ==
  { EmptyObj,
    ("notes" :> "call back"),
    ("status" :> "Hot Leads"),
    ("status" :> "Booked With Us"),
    ("status" :> "Hot Leads") @@ ("notes" :> "call back"),
    ("tripId" :> "T1") @@ ("status" :> "Hot Leads") }

LookupIds == {"T1", "T9"}

fetchLeads_call(o) ==
  /\ CanStart(o)
  /\ ops' = [ops EXCEPT ![o] = [IdleOp EXCEPT !.kind = "fetch", !.pc = "read"]]
  /\ started' = started + 1
  /\ UNCHANGED <<sheet, clock, cm, hasKey, minted,
                 codecVars, mapperVars, raceVars, dashVars>>

\* AddLeadDialog.handleSubmit up to the call of appendLead
handleSubmit_call(o) ==
  /\ CanStart(o)
  /\ Len(sheet) + PendingAppends < MaxRows
  /\ \E lead \in LeadInputs :
       ops' = [ops EXCEPT ![o] = [IdleOp EXCEPT !.kind = "append", !.pc = "token",
                                                !.args = lead, !.ui = "saving"]]
  /\ started' = started + 1
  /\ UNCHANGED <<sheet, clock, cm, hasKey, minted,
                 codecVars, mapperVars, raceVars, dashVars>>

\* updateLead is called with an identifier of ids and an updates object of us
updateLead_invoke(o, ids, us) ==
  /\ CanStart(o)
  /\ \E id \in ids, u \in us :
       ops' = [ops EXCEPT ![o] = [IdleOp EXCEPT !.kind = "update", !.pc = "token",
                                                !.tripId = id, !.args = u]]
  /\ started' = started + 1
  /\ UNCHANGED <<sheet, clock, cm, hasKey, minted,
                 codecVars, mapperVars, raceVars, dashVars>>

updateLead_call(o) == updateLead_invoke(o, LookupIds, UpdateInputs)

AfterToken(op) == IF op.kind = "append" THEN "post" ELSE "find"

\* getAccessToken: no signing material
getAccessToken_noKey(o) ==
  /\ ops[o].pc = "token"
  /\ ~hasKey
  /\ ops' = [ops EXCEPT ![o] = Thrown(@, MsgNoKey, "ConfigurationMissing")]
  /\ UNCHANGED <<sheet, clock, cm, hasKey, minted, started,
                 codecVars, mapperVars, raceVars, dashVars>>

\* appendLead between the token and the POST: the row is built, reading the
\* clock; updateLead sends its key-column read and builds nothing yet
AfterTokenData(op, m, now) ==
  IF op.kind = "append" THEN <<RecordToRow(op.args, m, now)>> ELSE <<>>

\* getAccessToken: the token endpoint answers with a token; the operation
\* runs on to its next request
getAccessToken_ok(o) ==
  /\ ops[o].pc = "token"
  /\ hasKey
  /\ minted' = minted + 1
  /\ ops' = [ops EXCEPT ![o] = [@ EXCEPT !.nToken = @ + 1, !.token = minted + 1,
                                         !.data = AfterTokenData(ops[o], cm, clock),
                                         !.pc = AfterToken(ops[o])]]
  /\ UNCHANGED <<sheet, clock, cm, hasKey, started,
                 codecVars, mapperVars, raceVars, dashVars>>

\* getAccessToken: the token endpoint answers with a non-success status
getAccessToken_rejected(o) ==
  /\ ops[o].pc = "token"
  /\ hasKey
  /\ ops' = [ops EXCEPT ![o] =
               Thrown([@ EXCEPT !.nToken = @ + 1], MsgToken, "TokenFailed")]
  /\ UNCHANGED <<sheet, clock, cm, hasKey, minted, started,
                 codecVars, mapperVars, raceVars, dashVars>>

\* the first returned row taken for the header
FetchRowsSkippingFirst(hasValues, values) ==
  IF hasValues THEN SubSeq(values, 2, Len(values)) ELSE <<>>

\* fetchLeads: data.values || []
FetchRows(hasValues, values) == IF hasValues THEN values ELSE <<>>

\* fetchLeads: rows.map(...)
MapRows(rows, m) == [i \in 1..Len(rows) |-> RowToRecord(rows[i], m)]

\* fetchLeads: the read succeeds
fetchLeads_ok(o) ==
  /\ ops[o].kind = "fetch" /\ ops[o].pc = "read"
  /\ ops' = [ops EXCEPT ![o] =
               [@ EXCEPT !.nRead = @ + 1, !.pc = "done", !.result = "returned",
                         !.outcome = "Ok",
                         !.ret = MapRows(FetchRows(Len(sheet) > 1, ReadRows(sheet)), cm)]]
  /\ UNCHANGED <<sheet, clock, cm, hasKey, minted, started,
                 codecVars, mapperVars, raceVars, dashVars>>

\* fetchLeads: the read answers with a non-success status
fetchLeads_rejected(o) ==
  /\ ops[o].kind = "fetch" /\ ops[o].pc = "read"
  /\ ops' = [ops EXCEPT ![o] =
               Thrown([@ EXCEPT !.nRead = @ + 1], MsgFetch, "ReadFailed")]
  /\ UNCHANGED <<sheet, clock, cm, hasKey, minted, started,
                 codecVars, mapperVars, raceVars, dashVars>>

\* appendLead and handleSubmit after it: the provider appends the row
appendLead_ok(o) ==
  /\ ops[o].pc = "post"
  /\ sheet' = ProviderAppend(sheet, ops[o].data[1])
  /\ ops' = [ops EXCEPT ![o] =
               Sent([@ EXCEPT !.nAppend = @ + 1, !.pc = "done",
                              !.result = "returned", !.outcome = "Ok",
                              !.ui = "successToast"], "append")]
  /\ UNCHANGED <<clock, cm, hasKey, minted, started,
                 codecVars, mapperVars, raceVars, dashVars>>

\* appendLead and handleSubmit after it: the provider rejects the append
appendLead_rejected(o) ==
  /\ ops[o].pc = "post"
  /\ \E text \in RejectTexts :
       ops' = [ops EXCEPT ![o] =
                 Thrown(Sent([@ EXCEPT !.nAppend = @ + 1], "append"), MsgAppend(text),
                        "WriteRejected")]
  /\ UNCHANGED <<sheet, clock, cm, hasKey, minted, started,
                 codecVars, mapperVars, raceVars, dashVars>>

\* the emptiness check of data left out
IsNoOpNever(data) == FALSE

\* updateLead: data.length === 0
IsNoOp(data) == Len(data) = 0

\* updateLead after a successful key-column read: lookup, then data
AfterFind(op, colVals, m) ==
  LET rowIndex == FindIndex(colVals, op.tripId)
      rowNumber == RowNumber(rowIndex)
      data == BuildData(op.args, m, rowNumber)
  IN  IF IsNotFound(rowIndex)
      THEN updateLead_catch([op EXCEPT !.alerts = Append(@, AlertNotFound(op.tripId))],
                       MsgNotFound(op.tripId), "NotFound")
      ELSE IF IsNoOp(data)
           THEN [op EXCEPT !.rowNumber = rowNumber, !.pc = "done",
                           !.result = "returned", !.outcome = "NoOp"]
           ELSE [op EXCEPT !.rowNumber = rowNumber, !.data = data, !.pc = "batch"]

\* updateLead: the key-column read succeeds
updateLead_find_ok(o) ==
  /\ ops[o].pc = "find"
  /\ ops' = [ops EXCEPT ![o] =
               AfterFind(Sent([@ EXCEPT !.nRead = @ + 1], "find"),
                         KeyColumn(sheet, TripIdCol(cm)), cm)]
  /\ UNCHANGED <<sheet, clock, cm, hasKey, minted, started,
                 codecVars, mapperVars, raceVars, dashVars>>

\* updateLead: the key-column read answers with a non-success status
updateLead_find_rejected(o) ==
  /\ ops[o].pc = "find"
  /\ ops' = [ops EXCEPT ![o] =
               Thrown(Sent([@ EXCEPT !.nRead = @ + 1], "find"),
                      MsgReadIds(TextQuota), "ReadFailed")]
  /\ UNCHANGED <<sheet, clock, cm, hasKey, minted, started,
                 codecVars, mapperVars, raceVars, dashVars>>

\* updateLead: the provider applies the batch
updateLead_batch_ok(o) ==
  /\ ops[o].pc = "batch"
  /\ sheet' = ProviderBatch(sheet, ops[o].data)
  /\ ops' = [ops EXCEPT ![o] =
               Sent([@ EXCEPT !.nBatch = @ + 1, !.pc = "done",
                              !.result = "returned", !.outcome = "Ok",
                              !.alerts = Append(@, AlertUpdated)], "batch")]
  /\ UNCHANGED <<clock, cm, hasKey, minted, started,
                 codecVars, mapperVars, raceVars, dashVars>>

\* updateLead: the provider rejects the batch; the method alerts and returns
updateLead_batch_rejected(o) ==
  /\ ops[o].pc = "batch"
  /\ \E text \in RejectTexts :
       ops' = [ops EXCEPT ![o] =
                 Sent([@ EXCEPT !.nBatch = @ + 1, !.pc = "done",
                                !.result = "returned",
                                !.outcome = "WriteRejected", !.failure = text,
                                !.alerts = Append(@, AlertUpdateFailed(text))],
                      "batch")]
  /\ UNCHANGED <<sheet, clock, cm, hasKey, minted, started,
                 codecVars, mapperVars, raceVars, dashVars>>

\* a millisecond passes
Tick ==
  /\ clock < StartClock + MaxTicks
  /\ clock' = clock + 1
  /\ UNCHANGED <<sheet, cm, hasKey, minted, started, ops,
                 codecVars, mapperVars, raceVars, dashVars>>

(* ------------------------------ initial ------------------------------- *)

ColA == <<CharCodeA>>
ColB == <<CharCodeA + 1>>
ColC == <<CharCodeA + 2>>

Mappings ==
  { ("tripId" :> ColA) @@ ("status" :> ColB),
    ("tripId" :> ColC) @@ ("status" :> ColA),
    ("status" :> ColB) }

Header == <<"Trip ID">>

\* a row someone entered earlier
SeedRow(id, m) ==
  SetCell(SetCell(<<<<>>>>, 1, columnToIndex(TripIdCol(m)) + 1, id),
          1, columnToIndex(m["status"]) + 1, "Unfollowed")[1]

InitSheets(m) == { <<Header>>, <<Header, SeedRow("t1", m), SeedRow("T1", m)>> }

CodecIdle == col = <<>> /\ colIndex = -2

MapperIdle ==
  mLead = EmptyObj /\ mCm = EmptyObj /\ mPc = "off" /\ mRow = <<>> /\ mRec = EmptyObj

RaceIdle == edits = 0

DashIdle ==
  /\ leads = <<>> /\ loading = FALSE /\ toasts = <<>> /\ consoleLog = <<>>
  /\ calls = <<>> /\ issued = 0

Init ==
  /\ cm \in Mappings
  /\ hasKey \in BOOLEAN
  /\ sheet \in InitSheets(cm)
  /\ clock = StartClock
  /\ minted = 0
  /\ started = 0
  /\ ops = [o \in Slots |-> IdleOp]
  /\ CodecIdle
  /\ MapperIdle
  /\ RaceIdle
  /\ DashIdle

Next ==
  \/ Tick
  \/ \E o \in Slots :
       \/ fetchLeads_call(o)
       \/ handleSubmit_call(o)
       \/ updateLead_call(o)
       \/ getAccessToken_noKey(o)
       \/ getAccessToken_ok(o)
       \/ getAccessToken_rejected(o)
       \/ fetchLeads_ok(o)
       \/ fetchLeads_rejected(o)
       \/ appendLead_ok(o)
       \/ appendLead_rejected(o)
       \/ updateLead_find_ok(o)
       \/ updateLead_find_rejected(o)
       \/ updateLead_batch_ok(o)
       \/ updateLead_batch_rejected(o)

Spec == Init /\ [][Next]_vars

(* ------------------------ codec specification ------------------------- *)

AccessIdle ==
  /\ sheet = <<>> /\ clock = StartClock /\ cm = EmptyObj
  /\ hasKey = FALSE /\ minted = 0 /\ started = 0 /\ ops = <<>>

Letters == CharCodeA..(CharCodeA + 25)

\* the column addresses of at most MaxColLen letters
Columns == UNION {[1..n -> Letters] : n \in 1..MaxColLen}

CodecInit ==
  /\ col \in Columns
  /\ colIndex = -2
  /\ AccessIdle
  /\ MapperIdle
  /\ RaceIdle
  /\ DashIdle

\* a call of columnToIndex
Convert ==
  /\ colIndex = -2
  /\ colIndex' = columnToIndex(col)
  /\ UNCHANGED <<col, accessVars, mapperVars, raceVars, dashVars>>

CodecSpec == CodecInit /\ [][Convert]_vars

(* ------------------------ mapper specification ------------------------ *)

ColAA == <<CharCodeA, CharCodeA>>

\* every mapping of the fields to columns A, B and AA, the empty one and the
\* ones that send two fields to one column included
MapperMappings == UNION {[D -> {ColA, ColB, ColAA}] : D \in SUBSET Fields}

\* every lead over the fields: a field is undefined, empty or has a value
MapperLeads ==
  {l \in UNION {[D -> {"", "T1", "x"}] : D \in SUBSET Fields} :
     /\ "tripId" \in DOMAIN l => l["tripId"] \in {"", "T1"}
     /\ \A k \in DOMAIN l \ {"tripId"} : l[k] \in {"", "x"}}

MapperInit ==
  /\ mLead \in MapperLeads
  /\ mCm \in MapperMappings
  /\ mPc = "start"
  /\ mRow = <<>>
  /\ mRec = EmptyObj
  /\ clock = StartClock
  /\ sheet = <<>> /\ cm = EmptyObj /\ hasKey = FALSE /\ minted = 0
  /\ started = 0 /\ ops = <<>>
  /\ CodecIdle
  /\ RaceIdle
  /\ DashIdle

\* appendLead builds the row; Math.max() of nothing is -Infinity and
\* new Array(-Infinity + 1) throws a RangeError
MapperBuild ==
  /\ mPc = "start"
  /\ DOMAIN mCm # {}
  /\ mRow' = RecordToRow(mLead, mCm, clock)
  /\ mPc' = "row"
  /\ UNCHANGED <<mLead, mCm, mRec, accessVars, codecVars, raceVars, dashVars>>

MapperBuildThrows ==
  /\ mPc = "start"
  /\ DOMAIN mCm = {}
  /\ mPc' = "threw"
  /\ UNCHANGED <<mLead, mCm, mRow, mRec, accessVars, codecVars,
                 raceVars, dashVars>>

\* fetchLeads reads the row back as the provider returns it
MapperRead ==
  /\ mPc = "row"
  /\ mRec' = RowToRecord(TrimRow(mRow), mCm)
  /\ mPc' = "read"
  /\ UNCHANGED <<mLead, mCm, mRow, accessVars, codecVars, raceVars, dashVars>>

MapperNext == MapperBuild \/ MapperBuildThrows \/ MapperRead

MapperSpec == MapperInit /\ [][MapperNext]_vars

(* ------------------------- race specification ------------------------- *)
(* updateLead while another actor (a person in the spreadsheet, another    *)
(* client) inserts and deletes rows of the worksheet.                      *)

RaceMapping == ("tripId" :> ColA) @@ ("status" :> ColB)

\* updates of the race specification: a status, and nothing that is mapped
RaceUpdates == { ("status" :> "Booked With Us"), ("notes" :> "call back") }

RaceInit ==
  /\ cm = RaceMapping
  /\ hasKey = TRUE
  /\ sheet = <<Header, SeedRow("T9", cm), SeedRow("T1", cm)>>
  /\ clock = StartClock
  /\ minted = 0
  /\ started = 0
  /\ ops = [o \in Slots |-> IdleOp]
  /\ edits = 0
  /\ CodecIdle
  /\ MapperIdle
  /\ DashIdle

\* the grid with a row put in at physical row r; the rows from r on move down
InsertRowAt(sh, r, row) ==
  [i \in 1..(Len(sh) + 1) |->
     IF i < r THEN sh[i] ELSE IF i = r THEN row ELSE sh[i - 1]]

\* the grid with physical row r taken out; the rows below move up
DeleteRowAt(sh, r) ==
  [i \in 1..(Len(sh) - 1) |-> IF i < r THEN sh[i] ELSE sh[i + 1]]

\* another actor inserts a row above an existing data row
ActorInsertsRow ==
  /\ edits < MaxEdits
  /\ Len(sheet) < MaxRows
  /\ \E r \in 2..Len(sheet) :
       sheet' = Normalise(InsertRowAt(sheet, r, SeedRow("T7", cm)))
  /\ edits' = edits + 1
  /\ UNCHANGED <<clock, cm, hasKey, minted, started, ops,
                 codecVars, mapperVars, dashVars>>

\* another actor deletes a data row
ActorDeletesRow ==
  /\ edits < MaxEdits
  /\ \E r \in 2..Len(sheet) : sheet' = Normalise(DeleteRowAt(sheet, r))
  /\ edits' = edits + 1
  /\ UNCHANGED <<clock, cm, hasKey, minted, started, ops,
                 codecVars, mapperVars, dashVars>>

\* updateLead is called for T1
updateLead_race(o) == updateLead_invoke(o, {"T1"}, RaceUpdates)

\* the steps of the update in slot o
UpdateStep(o) ==
  \/ getAccessToken_noKey(o)
  \/ getAccessToken_ok(o)
  \/ getAccessToken_rejected(o)
  \/ updateLead_find_ok(o)
  \/ updateLead_find_rejected(o)
  \/ updateLead_batch_ok(o)
  \/ updateLead_batch_rejected(o)

RaceNext ==
  \/ ActorInsertsRow
  \/ ActorDeletesRow
  \/ \E o \in Slots :
       \/ updateLead_race(o)
       \/ getAccessToken_ok(o)
       \/ getAccessToken_rejected(o)
       \/ updateLead_find_ok(o)
       \/ updateLead_find_rejected(o)
       \/ updateLead_batch_ok(o)
       \/ updateLead_batch_rejected(o)

RaceSpec == RaceInit /\ [][RaceNext]_vars

(* ----------------------- dashboard specification ---------------------- *)
(* ConsultantDashboard: the leads and loading states, and fetchLeads(silent) *)
(* called on mount, by the Refresh button, by the 30-second interval and by *)
(* the add and details dialogs, while the worksheet changes.                *)

\* session?.user.name
SessionName == "Asha"

\* String.prototype.toLowerCase on the consultant names of the model
ToLowerCase(v) ==
  CASE v = "Asha" -> "asha" [] v = "ASHA K" -> "asha k" [] v = "Ravi" -> "ravi"
    [] OTHER -> v

\* String.prototype.includes on the lower-cased consultant names of the model
NameIncludes(hay, needle) ==
  \/ needle = ""
  \/ hay = needle
  \/ hay = "asha k" /\ needle = "asha"

\* fetchLeads: the filter on the consultant of a lead
IsMyLead(lead) ==
  /\ "consultant" \in DOMAIN lead
  /\ lead["consultant"] # ""
  /\ NameIncludes(ToLowerCase(lead["consultant"]), ToLowerCase(SessionName))

\* fetchLeads: data.filter(...)
MyLeads(data) == SelectSeq(data, IsMyLead)

\* what the await inside the try of fetchLeads rejects with
FetchErrors == {MsgFetch}

ErrorToast(msg) ==
  [variant |-> "destructive", title |-> "Error fetching leads", description |-> msg]

LogSyncCompleted == <<"Background sync completed">>

LogSyncError(msg) == <<"Background sync error:">> \o msg

IdleCall ==
  [pc |-> "idle", silent |-> FALSE, no |-> 0, ok |-> FALSE, data |-> <<>>,
   error |-> <<>>]

\* a call that raises the toast also when it is silent
fetchLeads_catchToastAlways(call, ts) == Append(ts, ErrorToast(call.error))

\* fetchLeads, the catch block: the toast of a call that is not silent
fetchLeads_catch(call, ts) ==
  IF ~call.silent THEN Append(ts, ErrorToast(call.error)) ELSE ts

\* fetchLeads: the lines console.log and console.error add
fetchLeads_console(call, lines) ==
  IF ~call.silent THEN lines
  ELSE IF call.ok THEN Append(lines, LogSyncCompleted)
       ELSE Append(lines, LogSyncError(call.error))

\* fetchLeads: if (!silent) setLoading(true)
fetchLeads_begin(silent, flag) == IF ~silent THEN TRUE ELSE flag

\* fetchLeads, the finally block: if (!silent) setLoading(false)
fetchLeads_finally(call, flag) == IF ~call.silent THEN FALSE ELSE flag

DashMapping == ("tripId" :> ColA) @@ ("consultant" :> ColB)

\* a row of the worksheet, as appendLead writes it
LeadRow(id, name) ==
  RecordToRow(("tripId" :> id) @@ ("consultant" :> name), DashMapping, StartClock)

DashInit ==
  /\ cm = DashMapping
  /\ sheet \in { <<Header>>,
                 <<Header, LeadRow("T1", "Asha"), LeadRow("T2", "Ravi")>> }
  /\ leads = <<>>
  /\ loading = TRUE
  /\ toasts = <<>>
  /\ consoleLog = <<>>
  /\ calls = [c \in Slots |-> IdleCall]
  /\ issued = 0
  /\ edits = 0
  /\ clock = StartClock /\ hasKey = FALSE /\ minted = 0 /\ started = 0
  /\ ops = <<>>
  /\ CodecIdle
  /\ MapperIdle

FreeCall(c) == calls[c].pc \in {"idle", "done"}

\* fetchLeads(silent) is called and runs up to its first await
fetchLeads_invoke(c, silent) ==
  /\ issued < MaxFetches
  /\ FreeCall(c)
  /\ \A d \in Slots : d < c => ~FreeCall(d)
  /\ loading' = fetchLeads_begin(silent, loading)
  /\ calls' = [calls EXCEPT ![c] = [IdleCall EXCEPT !.pc = "await",
                                                    !.silent = silent,
                                                    !.no = issued + 1]]
  /\ issued' = issued + 1
  /\ UNCHANGED <<leads, toasts, consoleLog, accessVars, codecVars, mapperVars,
                 raceVars>>

\* useEffect(() => { fetchLeads(); }, []) : the call on mount
mount_fetchLeads(c) == issued = 0 /\ fetchLeads_invoke(c, FALSE)

\* the Refresh button, disabled while loading
refresh_fetchLeads(c) == issued > 0 /\ ~loading /\ fetchLeads_invoke(c, FALSE)

\* onSuccess of AddLeadDialog, onUpdate of LeadDetailsDialog
onSuccess_fetchLeads(c) == issued > 0 /\ fetchLeads_invoke(c, FALSE)

\* setInterval(() => { fetchLeads(true); }, 30000)
interval_fetchLeads(c) == issued > 0 /\ fetchLeads_invoke(c, TRUE)

\* the provider answers the read of GoogleSheets.fetchLeads with the rows the
\* worksheet has at that moment
fetchLeads_answered(c) ==
  /\ calls[c].pc = "await"
  /\ calls' = [calls EXCEPT ![c] =
                 [@ EXCEPT !.pc = "answered", !.ok = TRUE,
                           !.data = MapRows(FetchRows(Len(sheet) > 1, ReadRows(sheet)),
                                            cm)]]
  /\ UNCHANGED <<leads, loading, toasts, consoleLog, issued, accessVars,
                 codecVars, mapperVars, raceVars>>

\* the await inside the try rejects
fetchLeads_failed(c) ==
  /\ calls[c].pc = "await"
  /\ \E msg \in FetchErrors :
       calls' = [calls EXCEPT ![c] = [@ EXCEPT !.pc = "answered", !.ok = FALSE,
                                                !.error = msg]]
  /\ UNCHANGED <<leads, loading, toasts, consoleLog, issued, accessVars,
                 codecVars, mapperVars, raceVars>>

\* fetchLeads resumes after its await: setLeads or the catch block, then the
\* finally block
fetchLeads_resume(c) ==
  /\ calls[c].pc = "answered"
  /\ leads' = IF calls[c].ok THEN MyLeads(calls[c].data) ELSE leads
  /\ toasts' = IF calls[c].ok THEN toasts ELSE fetchLeads_catch(calls[c], toasts)
  /\ consoleLog' = fetchLeads_console(calls[c], consoleLog)
  /\ loading' = fetchLeads_finally(calls[c], loading)
  /\ calls' = [calls EXCEPT ![c] = [@ EXCEPT !.pc = "done"]]
  /\ UNCHANGED <<issued, accessVars, codecVars, mapperVars, raceVars>>

\* a lead of this consultant is appended to the worksheet (by the add dialog,
\* by another client)
LeadIsAppended ==
  /\ edits < MaxEdits
  /\ Len(sheet) < MaxRows
  /\ sheet' = ProviderAppend(sheet, LeadRow("T7", "ASHA K"))
  /\ edits' = edits + 1
  /\ UNCHANGED <<clock, cm, hasKey, minted, started, ops,
                 codecVars, mapperVars, dashVars>>

DashNext ==
  \/ LeadIsAppended
  \/ ActorDeletesRow
  \/ \E c \in Slots :
       \/ mount_fetchLeads(c)
       \/ refresh_fetchLeads(c)
       \/ onSuccess_fetchLeads(c)
       \/ interval_fetchLeads(c)
       \/ fetchLeads_answered(c)
       \/ fetchLeads_failed(c)
       \/ fetchLeads_resume(c)

DashSpec == DashInit /\ [][DashNext]_vars

(* ------------------------------ claims -------------------------------- *)

Finished(o) == ops[o].pc = "done"

\* the outcomes that are failures (NoOp is none)
FailureOutcomes ==
  {"ConfigurationMissing", "TokenFailed", "ReadFailed", "NotFound", "WriteRejected"}

\* C1 (as claimed): every failure of fetch-all, append or update other than a
\* NoOpUpdate reaches the caller as a thrown failure carrying the original
\* message; no failed operation returns normally.
C1_FailuresPropagate ==
  \A o \in Slots :
    Finished(o) /\ ops[o].outcome \in FailureOutcomes
      => ops[o].result = "threw" /\ ops[o].error = ops[o].failure

\* the updates object has no field that is defined and mapped
NothingToWrite(o) == \A k \in Fields : ~(k \in DOMAIN ops[o].args /\ k \in DOMAIN cm)

\* C2 (as claimed): an update with no field that is both defined and mapped
\* makes no network call at all (no token exchange, no key-column read, no
\* batch write) and returns as a NoOpUpdate, whatever the trip identifier is.
C2_NoOpMakesNoCall ==
  \A o \in Slots :
    Finished(o) /\ ops[o].kind = "update" /\ NothingToWrite(o)
      => /\ ops[o].outcome = "NoOp"
         /\ ops[o].nToken = 0 /\ ops[o].nRead = 0 /\ ops[o].nBatch = 0

\* C2 (amended): an update with no field that is both defined and mapped
\* issues no batch write and writes no cell; it still exchanges a token and
\* reads the key column first, and it ends as a NoOpUpdate, returning
\* normally and without an alert, only after both succeeded and the trip
\* identifier was found; otherwise it ends in the failure of that step.
C2_NoOpNoBatchWrite ==
  \A o \in Slots :
    ops[o].kind = "update" /\ NothingToWrite(o)
      => /\ ops[o].nBatch = 0 /\ ops[o].data = <<>> /\ ops[o].pc # "batch"
         /\ Finished(o) =>
              /\ ops[o].outcome \in
                   {"NoOp", "NotFound", "ReadFailed", "TokenFailed", "ConfigurationMissing"}
              /\ ops[o].outcome = "NoOp" =>
                   /\ ops[o].nToken = 1 /\ ops[o].nRead = 1
                   /\ ops[o].rowNumber >= HeaderOffset
                   /\ ops[o].result = "returned" /\ ops[o].alerts = <<>>

\* C2 witness: an update of only an unmapped field ended as a NoOp after its read
C2_Witness ==
  \E o \in Slots :
    /\ Finished(o) /\ ops[o].kind = "update" /\ NothingToWrite(o)
    /\ ops[o].args # EmptyObj
    /\ ops[o].outcome = "NoOp" /\ ops[o].nRead = 1

\* the key cell of physical row r
KeyCell(sh, r) == CellOrEmpty(sh[r], columnToIndex(TripIdCol(cm)))

\* invocation o takes the step that handles a successful key-column read
FindStep(o) ==
  /\ ops[o].pc = "find"
  /\ ops'[o].nRead = ops[o].nRead + 1
  /\ ops'[o].outcome # "ReadFailed"

\* C3: when the key-column read holds no cell equal to the trip identifier,
\* the update ends in NotFound, issues no batch write and leaves the sheet as
\* it was; an update that ended in NotFound never issued a batch write.
C3_NotFoundNoEffect ==
  [][\A o \in Slots :
       /\ (FindStep(o) /\ \A r \in 2..Len(sheet) : KeyCell(sheet, r) # ops[o].tripId)
            => /\ ops'[o].pc = "done" /\ ops'[o].outcome = "NotFound"
               /\ ops'[o].nBatch = 0 /\ ops'[o].data = <<>>
               /\ sheet' = sheet
       /\ ops'[o].outcome = "NotFound" => ops'[o].nBatch = 0 /\ ops'[o].pc = "done"
    ]_vars

\* C3 witness: an update of a mapped field ended in NotFound on a sheet with rows
C3_Witness ==
  \E o \in Slots :
    /\ Finished(o) /\ ops[o].outcome = "NotFound"
    /\ ops[o].args = ("status" :> "Hot Leads")
    /\ "status" \in DOMAIN cm
    /\ Len(sheet) > 1

\* the value of a field of the lead, undefined read as the empty string
FieldValue(lead, k) == IF k \in DOMAIN lead THEN lead[k] ELSE ""

\* the trip identifiers of the data rows
TripIds(sh) == KeyColumn(sh, TripIdCol(cm))

\* the non-empty trip identifiers of the data rows are pairwise distinct
DistinctIds(sh) ==
  \A i, j \in DOMAIN TripIds(sh) :
    i # j /\ TripIds(sh)[i] # "" => TripIds(sh)[i] # TripIds(sh)[j]

\* invocation o, an append of a lead without a trip identifier, has its row
\* appended by the provider
BlindAppendLands(o) ==
  /\ ops[o].kind = "append" /\ ops[o].pc = "post" /\ ops'[o].outcome = "Ok"
  /\ FieldValue(ops[o].args, "tripId") = ""

\* C4 (as claimed): appends of leads that carry no trip identifier keep the
\* trip identifiers of all rows pairwise distinct, also when two of them read
\* the clock in the same millisecond.
C4_TripIdsStayDistinct ==
  [][(DistinctIds(sheet) /\ \E o \in Slots : BlindAppendLands(o)) => DistinctIds(sheet')
    ]_vars

(* ----------------------------- C5 .. C10 ------------------------------ *)

\* C5 (as claimed): for any lead and any mapping, also one that sends two
\* fields to one column and a lead with an empty or undefined trip identifier,
\* the row built by the append path read back by the fetch path reproduces
\* the value of every mapped field.
C5_RoundTrip ==
  mPc = "read" => \A k \in DOMAIN mCm : mRec[k] = FieldValue(mLead, k)

\* no other mapped field shares the column of k
OwnColumn(k) == \A j \in DOMAIN mCm \ {k} : mCm[j] # mCm[k]

\* C5 (amended): the round trip reproduces every mapped field whose column no
\* other mapped field shares, with two exceptions of the append path: an
\* undefined field reads back as the empty string, and an empty or undefined
\* trip identifier reads back as the synthesized "T" + timestamp.
C5_RoundTripOwnColumn ==
  mPc = "read" =>
    \A k \in DOMAIN mCm :
      OwnColumn(k) =>
        mRec[k] = IF k = "tripId" /\ FieldValue(mLead, k) = ""
                  THEN "T" \o ToString(clock)
                  ELSE FieldValue(mLead, k)

\* C5 witness: a lead read back under a mapping that sends two fields to one column
C5_Witness ==
  /\ mPc = "read"
  /\ DOMAIN mCm = Fields /\ mCm["status"] = mCm["notes"] /\ mCm["tripId"] = ColAA
  /\ mLead = ("tripId" :> "T1") @@ ("status" :> "x") @@ ("notes" :> "")
  /\ mRec["tripId"] = "T1"

\* the entries updateLead has to send: one per defined and mapped field
ExpectedData(o) ==
  { [range |-> [ws |-> WorksheetName, col |-> cm[f], row |-> ops[o].rowNumber],
     value |-> ops[o].args[f]] : f \in DOMAIN ops[o].args \cap DOMAIN cm }

SentData(o) == {ops[o].data[i] : i \in DOMAIN ops[o].data}

\* the update has reached the write step
AtWriteStep(o) ==
  /\ ops[o].kind = "update"
  /\ ops[o].pc = "batch" \/ (Finished(o) /\ ops[o].outcome \in {"Ok", "WriteRejected"})

\* C6 (amended): an update that reaches the write step issues exactly one
\* batch write, whose ranges are exactly the cells of the resolved row in the
\* columns of the fields of updates that are defined and mapped, each with
\* that field's value; the tripId argument is only the lookup key, but a
\* tripId field inside updates that is mapped is written like any other.
C6_BatchIsTheMappedFields ==
  \A o \in Slots :
    /\ ops[o].kind = "update" => ops[o].nBatch <= 1
    /\ AtWriteStep(o) =>
         /\ ops[o].nBatch = (IF Finished(o) THEN 1 ELSE 0)
         /\ SentData(o) = ExpectedData(o)
         /\ Len(ops[o].data) = Cardinality(ExpectedData(o))
         /\ ops[o].rowNumber >= HeaderOffset

\* C6 (as claimed): as above, and the trip-identifier cell is never among the
\* written ranges, even when updates itself contains tripId.
C6_KeyCellNeverWritten ==
  \A o \in Slots :
    AtWriteStep(o) =>
      /\ SentData(o) = ExpectedData(o)
      /\ \A i \in DOMAIN ops[o].data : ops[o].data[i].range.col # TripIdCol(cm)

\* C6 witness: an update of a mapped and an unmapped field wrote the one cell of row 3
C6_Witness ==
  \E o \in Slots :
    /\ Finished(o) /\ ops[o].kind = "update" /\ ops[o].outcome = "Ok"
    /\ ops[o].args = ("status" :> "Hot Leads") @@ ("notes" :> "call back")
    /\ Len(ops[o].data) = 1 /\ ops[o].rowNumber = 3
    /\ CellOrEmpty(sheet[3], columnToIndex(cm["status"])) = "Hot Leads"

\* C7: the lookup resolves the physical row (index + 2) of the topmost cell of
\* the key column equal to the trip identifier, case-sensitively, and ends in
\* NotFound when no cell is equal.
C7_LookupTopmostExact ==
  [][\A o \in Slots :
       FindStep(o) =>
         LET hits == {r \in 2..Len(sheet) : KeyCell(sheet, r) = ops[o].tripId}
         IN  IF hits = {}
             THEN ops'[o].outcome = "NotFound" /\ ops'[o].rowNumber = 0
             ELSE /\ ops'[o].outcome # "NotFound"
                  /\ ops'[o].rowNumber \in hits
                  /\ \A r \in hits : ops'[o].rowNumber <= r
    ]_vars

\* C7 witness: an update resolved row 3 although row 2 holds "t1" and row 4
\* holds "T1" again
C7_Witness ==
  \E o \in Slots :
    /\ ops[o].kind = "update" /\ ops[o].tripId = "T1" /\ ops[o].rowNumber = 3
    /\ Len(sheet) = 4
    /\ KeyCell(sheet, 2) = "t1" /\ KeyCell(sheet, 3) = "T1" /\ KeyCell(sheet, 4) = "T1"

RECURSIVE Pow26(_)
Pow26(n) == IF n = 0 THEN 1 ELSE 26 * Pow26(n - 1)

RECURSIVE DigitSum(_, _)
\* the bijective base-26 value of the last n letters of c
DigitSum(c, n) ==
  IF n = 0 THEN 0
  ELSE (c[Len(c) - n + 1] - CharCodeA + 1) * Pow26(n - 1) + DigitSum(c, n - 1)

RECURSIVE Successor(_)
\* the next column address: A, B, ..., Z, AA, AB, ...
Successor(c) ==
  IF c = <<>> THEN <<CharCodeA>>
  ELSE IF c[Len(c)] < CharCodeA + 25
       THEN [c EXCEPT ![Len(c)] = @ + 1]
       ELSE Append(Successor(SubSeq(c, 1, Len(c) - 1)), CharCodeA)

RECURSIVE IndexToLetter(_)
\* the inverse the codec is to have
IndexToLetter(n) ==
  IF n < 0 THEN <<>>
  ELSE Append(IndexToLetter((n \div 26) - 1), CharCodeA + (n % 26))

\* C8: columnToIndex is the bijective base-26 value minus one, grows from
\* each column address to the next one, and indexToLetter inverts it.
C8_ColumnIndex ==
  colIndex # -2 =>
    /\ colIndex = DigitSum(col, Len(col)) - 1
    /\ colIndex >= 0
    /\ colIndex < columnToIndex(Successor(col))
    /\ IndexToLetter(colIndex) = col

\* C8 witness: AZ was converted to 51
C8_Witness == col = <<CharCodeA, CharCodeA + 25>> /\ colIndex = 51

\* C9 (as claimed): a rejected write of an append or an update whose response
\* text contains "protected" is routed to the remediation dialog and never
\* handled as a generic failure.
C9_ProtectedGoesToDialog ==
  \A o \in Slots :
    Finished(o) /\ ops[o].outcome = "WriteRejected" /\ Includes(ops[o].failure, Protected)
      => ops[o].ui = "protectionDialog" /\ ops[o].alerts = <<>>

\* invocation o of fetchLeads takes its step
FetchStep(o) == ops[o].kind = "fetch" /\ ops[o].pc = "read" /\ ops'[o].pc = "done"

\* C10: a fetch-all makes exactly one read and no token exchange; it returns
\* one record per row of the response, none when the response has no values,
\* and fails exactly when the read is rejected.
C10_FetchOneRead ==
  [][\A o \in Slots :
       /\ ops'[o].kind = "fetch" =>
            /\ ops'[o].nToken = 0 /\ ops'[o].token = 0
            /\ ops'[o].nAppend = 0 /\ ops'[o].nBatch = 0
            /\ ops'[o].nRead = (IF ops'[o].pc = "done" THEN 1 ELSE 0)
       /\ FetchStep(o) =>
            /\ sheet' = sheet
            /\ \/ /\ ops'[o].result = "returned" /\ ops'[o].outcome = "Ok"
                  /\ Len(ops'[o].ret) = Len(sheet) - 1
                  /\ \A i \in DOMAIN ops'[o].ret :
                       ops'[o].ret[i] = RowToRecord(sheet[i + 1], cm)
               \/ /\ ops'[o].result = "threw" /\ ops'[o].outcome = "ReadFailed"
                  /\ ops'[o].error = MsgFetch /\ ops'[o].ret = <<>>
    ]_vars

\* C10 witness: one fetch returned two records, another one failed
C10_Witness ==
  \E o, p \in Slots :
    /\ ops[o].kind = "fetch" /\ Finished(o) /\ ops[o].result = "returned"
    /\ Len(ops[o].ret) = 2
    /\ ops[p].kind = "fetch" /\ Finished(p) /\ ops[p].result = "threw"

(* ----------------------------- C11 .. C17 ----------------------------- *)

\* the provider applies the batch write of update o
BatchLands(o) == ops[o].pc = "batch" /\ ops'[o].outcome = "Ok"

\* the topmost physical row whose key cell is id, 0 when there is none
RowOfKey(sh, id) ==
  LET hits == {r \in 2..Len(sh) : KeyCell(sh, r) = id}
  IN  IF hits = {} THEN 0 ELSE Min(hits)

\* C11: with no other actor editing the sheet, every update of a field writes
\* the row its own key-column read resolved, which is the row that holds the
\* trip identifier; when its batch write reaches the provider the field's cell
\* holds its value, and no other step changes a cell of an existing row: after
\* two concurrent updates the cell holds the value of the batch that landed
\* last, whatever the order of their starts, tokens and lookups.
C11_LastBatchWins ==
  [][/\ \A o \in Slots :
          BatchLands(o) /\ "status" \in DOMAIN ops[o].args \cap DOMAIN cm =>
            /\ ops[o].rowNumber = RowOfKey(sheet, ops[o].tripId)
            /\ CellOrEmpty(sheet'[ops[o].rowNumber], columnToIndex(cm["status"]))
                 = ops[o].args["status"]
     /\ (\A o \in Slots : ~BatchLands(o)) =>
          \A r \in 2..Len(sheet) : r \in DOMAIN sheet' /\ sheet'[r] = sheet[r]
    ]_vars

\* C11 witness: two updates of the status of T1 have both been applied; the
\* one that started first and got its token first landed last, and the cell
\* holds its value
C11_Witness ==
  /\ \A o \in Slots : Finished(o) /\ ops[o].kind = "update" /\ ops[o].outcome = "Ok"
                       /\ ops[o].tripId = "T1" /\ ops[o].rowNumber = 3
  /\ ops[1].token < ops[2].token
  /\ ops[1].args = ("status" :> "Hot Leads")
  /\ ops[2].args = ("status" :> "Booked With Us")
  /\ CellOrEmpty(sheet[3], columnToIndex(cm["status"])) = "Hot Leads"

\* row r of the grid, empty when the grid ends above it
RowAt(sh, r) == IF r \in DOMAIN sh THEN sh[r] ELSE <<>>

\* update o is in flight
InFlight(o) == ops[o].kind = "update" /\ ops[o].pc \in {"token", "find", "batch"}

\* C12: while another actor inserts and deletes rows, an update in flight
\* always has a next step and an update that ended has returned to its
\* caller; a batch write that is applied changes only cells of the row number
\* resolved at lookup time, whatever that row holds by then; and every lookup
\* resolves the row that holds the identifier at the time of its read or ends
\* in NotFound.
C12_RowShiftsAreSurvived ==
  /\ [](\A o \in Slots :
          /\ InFlight(o) => ENABLED UpdateStep(o)
          /\ Finished(o) /\ ops[o].kind = "update" => ops[o].result = "returned")
  /\ [][\A o \in Slots :
          /\ BatchLands(o) =>
               /\ \A r \in 1..Max({Len(sheet), Len(sheet')}) :
                    r # ops[o].rowNumber => RowAt(sheet', r) = RowAt(sheet, r)
               /\ \A c \in 0..Max({Len(RowAt(sheet, ops[o].rowNumber)),
                                   Len(RowAt(sheet', ops[o].rowNumber))}) :
                    CellOrEmpty(RowAt(sheet', ops[o].rowNumber), c) =
                      IF \E i \in DOMAIN ops[o].data :
                           columnToIndex(ops[o].data[i].range.col) = c
                      THEN LET i == CHOOSE i \in DOMAIN ops[o].data :
                                      columnToIndex(ops[o].data[i].range.col) = c
                           IN  ops[o].data[i].value
                      ELSE CellOrEmpty(RowAt(sheet, ops[o].rowNumber), c)
          /\ FindStep(o) =>
               IF RowOfKey(sheet, ops[o].tripId) = 0
               THEN ops'[o].outcome = "NotFound" /\ ops'[o].pc = "done"
               ELSE /\ ops'[o].outcome # "NotFound"
                    /\ ops'[o].rowNumber = RowOfKey(sheet, ops[o].tripId)
       ]_vars

\* C12 witness: a row was inserted between the lookup and the batch write of
\* the update in slot 1, which overwrote row 3, by then the row of T9; the
\* next update of T1 resolved row 4
C12_Witness ==
  /\ Finished(1) /\ ops[1].outcome = "Ok" /\ ops[1].tripId = "T1"
  /\ ops[1].rowNumber = 3 /\ ops[1].args = ("status" :> "Booked With Us")
  /\ Len(sheet) = 4
  /\ KeyCell(sheet, 3) = "T9"
  /\ CellOrEmpty(sheet[3], columnToIndex(cm["status"])) = "Booked With Us"
  /\ ops[2].kind = "update" /\ ops[2].tripId = "T1" /\ ops[2].rowNumber = 4
  /\ KeyCell(sheet, 4) = "T1"

\* call c of the dashboard's fetchLeads takes a step
CallSteps(c) == calls'[c] # calls[c]

\* call c resumes after a rejected await
CallFails(c) == calls[c].pc = "answered" /\ ~calls[c].ok /\ calls'[c].pc = "done"

\* C13: no step of a silent refresh changes the loading flag or raises a
\* toast; a silent refresh that fails writes the error to the console and
\* leaves the displayed leads as they were; a foreground fetch that fails
\* raises a destructive toast with the error and sets loading to false.
C13_SilentRefreshIsSilent ==
  [][\A c \in Slots :
       /\ CallSteps(c) /\ calls'[c].silent => loading' = loading /\ toasts' = toasts
       /\ CallFails(c) /\ calls[c].silent =>
            /\ leads' = leads
            /\ consoleLog' = Append(consoleLog, LogSyncError(calls[c].error))
       /\ CallFails(c) /\ ~calls[c].silent =>
            /\ toasts' = Append(toasts, ErrorToast(calls[c].error))
            /\ toasts'[Len(toasts')].variant = "destructive"
            /\ loading' = FALSE
            /\ leads' = leads /\ consoleLog' = consoleLog
    ]_vars

\* C13 witness: after the first load showed a lead, a silent refresh and a
\* foreground fetch ran at once and both failed: one console line, one toast,
\* the lead still displayed
C13_Witness ==
  /\ \A c \in Slots : calls[c].pc = "done" /\ ~calls[c].ok
  /\ calls[1].silent /\ ~calls[2].silent
  /\ Len(leads) = 1
  /\ consoleLog = <<LogSyncError(calls[1].error)>>
  /\ toasts = <<ErrorToast(calls[2].error)>>
  /\ ~loading

\* no call of fetchLeads is in flight
AllSettled == \A c \in Slots : calls[c].pc \in {"idle", "done"}

\* C17 (as claimed): once all fetches of the dashboard have completed, the
\* displayed leads are the result of the fetch that was issued last (when it
\* succeeded): a response of an earlier fetch that arrives late never replaces
\* the result of a later one.
C17_LastIssuedFetchIsDisplayed ==
  AllSettled =>
    \A c \in Slots :
      calls[c].pc = "done" /\ calls[c].ok /\ calls[c].no = issued
        => leads = MyLeads(calls[c].data)

\* C14 (as claimed): every record fetch-all returns has a string for every
\* lead field: the cell at the field's mapped column, the empty string when
\* the row is shorter, and the empty string when the mapping has no entry for
\* the field.
C14_EveryFieldIsAString ==
  [][\A o \in Slots :
       FetchStep(o) /\ ops'[o].result = "returned" =>
         \A i \in DOMAIN ops'[o].ret : \A k \in Fields :
           /\ k \in DOMAIN ops'[o].ret[i]
           /\ ops'[o].ret[i][k] =
                IF k \in DOMAIN cm
                THEN CellOrEmpty(sheet[i + 1], columnToIndex(cm[k]))
                ELSE ""
    ]_vars

\* v is "T" followed by the digits of a timestamp
IsTDigits(v) == \E n \in 0..(StartClock + MaxTicks) : v = "T" \o ToString(n)

\* the trip-identifier cell of the row appendLead built
TripIdCell == CellOrEmpty(mRow, columnToIndex(mCm["tripId"]))

\* the trip-identifier cell is as the claim says
TripIdCellIsRight ==
  IF FieldValue(mLead, "tripId") = ""
  THEN TripIdCell # "" /\ IsTDigits(TripIdCell)
  ELSE TripIdCell = mLead["tripId"]

\* C15 (as claimed): for any column mapping, the row appendLead sends has a
\* trip-identifier cell that is "T" followed by digits when the lead's trip
\* identifier is empty or missing, and the lead's trip identifier otherwise.
C15_TripIdCellForAnyMapping ==
  mPc \in {"row", "read"} =>
    /\ "tripId" \in DOMAIN mCm
    /\ TripIdCellIsRight

\* another mapped field that the lead defines is written to the column of the
\* trip identifier
TripIdOverwritten ==
  \E j \in DOMAIN mCm \ {"tripId"} : mCm[j] = mCm["tripId"] /\ j \in DOMAIN mLead

\* C15 (amended): for any column mapping that maps the trip identifier, to a
\* column to which no other mapped field that the lead defines is written, the
\* row appendLead sends has a trip-identifier cell that is "T" followed by
\* digits when the lead's trip identifier is empty or missing, and the lead's
\* trip identifier otherwise.
C15_TripIdCellWhenMapped ==
  mPc # "start" /\ "tripId" \in DOMAIN mCm /\ ~TripIdOverwritten =>
    mPc # "threw" /\ TripIdCellIsRight

\* C15 witness: a lead with an empty trip identifier under a mapping that
\* sends the trip identifier to AA and a field the lead lacks to AA as well
C15_Witness ==
  /\ mPc = "row"
  /\ mLead = ("tripId" :> "") @@ ("status" :> "x")
  /\ DOMAIN mCm = {"tripId", "status", "notes"}
  /\ mCm["tripId"] = ColAA /\ mCm["notes"] = ColAA /\ mCm["status"] = ColA
  /\ Len(mRow) = 27
  /\ mRow[27] = "T" \o ToString(clock)

\* invocation o is an append or an update
IsWrite(op) == op.kind \in {"append", "update"}

\* C16: every append and every update exchanges a token first and once: the
\* token it gets is freshly minted, no request went to the provider before
\* it, and every request the operation sends afterwards (key-column read,
\* append, batch write) carries that token, which no other operation holds;
\* an operation whose token exchange fails, or that has no signing material,
\* sends no request to the provider, and the sheet changes only in a request
\* that carries a token.
C16_OwnTokenFirst ==
  [][/\ \A o \in Slots :
          IsWrite(ops'[o]) =>
            /\ ops'[o].nToken <= 1
            /\ Len(ops'[o].sent) = ops'[o].nRead + ops'[o].nAppend + ops'[o].nBatch
            /\ \A i \in DOMAIN ops'[o].sent :
                 /\ ops'[o].sent[i].token = ops'[o].token
                 /\ ops'[o].token > 0 /\ ops'[o].nToken = 1
            /\ \A p \in Slots \ {o} :
                 IsWrite(ops'[p]) /\ ops'[o].token > 0 => ops'[p].token # ops'[o].token
            /\ ops'[o].outcome \in {"ConfigurationMissing", "TokenFailed"} =>
                 /\ ops'[o].sent = <<>> /\ ops'[o].token = 0
                 /\ ops'[o].nRead = 0 /\ ops'[o].nAppend = 0 /\ ops'[o].nBatch = 0
            /\ ops[o].pc = "token" /\ ops'[o].pc # "token" =>
                 /\ sheet' = sheet
                 /\ ops[o].sent = <<>> /\ ops[o].token = 0
                 /\ \/ /\ ops'[o].outcome \in {"ConfigurationMissing", "TokenFailed"}
                       /\ ops'[o].pc = "done" /\ minted' = minted
                    \/ /\ ops'[o].token = minted + 1 /\ minted' = minted + 1
                       /\ ops'[o].nToken = 1
     /\ sheet' # sheet =>
          \E o \in Slots :
            /\ Len(ops'[o].sent) = Len(ops[o].sent) + 1
            /\ ops'[o].sent[Len(ops'[o].sent)].token = ops[o].token
            /\ ops[o].token > 0
    ]_vars

\* C16 witness: an append holds the first token; an update that started next
\* holds the second one and sent it with its key-column read and its batch write
C16_Witness ==
  \E o, p \in Slots :
    /\ ops[p].kind = "append" /\ ops[p].token = 1 /\ ops[p].outcome = "Ok"
    /\ ops[p].sent = <<[call |-> "append", token |-> 1]>>
    /\ ops[o].kind = "update" /\ ops[o].token = 2 /\ ops[o].outcome = "Ok"
    /\ ops[o].sent = <<[call |-> "find", token |-> 2], [call |-> "batch", token |-> 2]>>

====
